---- MODULE Spec2Model ----
(***************************************************************************)
(* Model of qute-rust: src/env.rs (launch context resolver, single         *)
(* variable accessors, Fifo command channel) and src/util.rs (command      *)
(* helpers enter_mode, fake_key, send_command).                            *)
(*                                                                         *)
(* Spec        the resolver and the accessors over a process environment   *)
(* SpecChannel the command channel: helpers, Fifo::write, the host reader  *)
(***************************************************************************)
EXTENDS Integers, Sequences, FiniteSets, TLC

VARIABLES
    env,        \* the process environment: variable name -> entry
    pc,         \* "running", or "panicked" once an expect()/panic! fired
    ctx,        \* SpawnMode value the caller got from mode(): "None" | "Hints" | "Command"
    held,       \* unit-struct values the caller holds: subset of {"HintsVars","CommandVars"}
    last,       \* the last library call of the caller and its outcome
    fs,         \* the filesystem objects a channel path can name
    callerFifo, \* the Fifo value the caller holds: its path, or NoFifo
    cur,        \* the channel call in flight and the point it has reached
    handles,    \* the file handles the process has open
    nextHandle, \* the identity of the File value the next successful open returns
    log,        \* the channel calls that have finished, in order
    observed,   \* the bytes the host has read from the pipe
    hostReads,  \* number of reads the host has made
    fifoReads   \* number of times the process has read QUTE_FIFO

chanVars == <<fs, callerFifo, cur, handles, nextHandle, log, observed, hostReads, fifoReads>>
resolverVars == <<ctx, held, last>>
vars == <<env, pc, ctx, held, last, fs, callerFifo, cur, handles, nextHandle, log,
          observed, hostReads, fifoReads>>

(***************************************************************************)
(* Bounds                                                                  *)
(***************************************************************************)
\* number of variables (other than QUTE_MODE) that are unset or not Unicode
MaxAbnormal == 1
\* number of channel calls the caller issues
MaxCalls == 2
\* number of reads the host makes on the pipe
MaxHostReads == 2

(***************************************************************************)
(* Environment variable names: the constants of src/env.rs                 *)
(***************************************************************************)
MODE == "QUTE_MODE"
HINTS_URL == "QUTE_URL"
HINTS_SELECTED_TEXT == "QUTE_SELECTED_TEXT"
HINTS_SELECTED_HTML == "QUTE_SELECTED_HTML"
COMMAND_URL == "QUTE_URL"
COMMAND_TITLE == "QUTE_TITLE"
COMMAND_SELECTED_TEXT == "QUTE_SELECTED_TEXT"
COMMAND_COUNT == "QUTE_COUNT"
USER_AGENT == "QUTE_USER_AGENT"
HTML == "QUTE_HTML"
TEXT == "QUTE_TEXT"
FIFO == "QUTE_FIFO"
CONFIG_DIR == "QUTE_CONFIG_DIR"
DATA_DIR == "QUTE_DATA_DIR"
DOWNLOAD_DIR == "QUTE_DOWNLOAD_DIR"
COMMANDLINE_TEXT == "QUTE_COMMANDLINE_TEXT"

VarNames ==
    { MODE, HINTS_URL, HINTS_SELECTED_TEXT, HINTS_SELECTED_HTML, COMMAND_TITLE,
      COMMAND_COUNT, USER_AGENT, HTML, TEXT, FIFO, CONFIG_DIR, DATA_DIR,
      DOWNLOAD_DIR, COMMANDLINE_TEXT }

(***************************************************************************)
(* Entries of the process environment.  std::env::var distinguishes a      *)
(* variable that is not present, one whose value is not valid Unicode, and *)
(* one that holds a string.                                                *)
(***************************************************************************)
Unset == [tag |-> "unset", s |-> ""]
NotUnicode == [tag |-> "not_unicode", s |-> ""]
Val(s) == [tag |-> "val", s |-> s]

\* the value the host gives a variable in a regular launch
NormalValue(k) ==
    CASE k = MODE -> "command"
      [] k = FIFO -> "/run/qute/fifo"
      [] k = HTML -> "/tmp/page.html"
      [] k = TEXT -> "/tmp/page.txt"
      [] k = COMMAND_COUNT -> "3"
      [] OTHER -> "v"

ModeEntries == { Unset, NotUnicode, Val("hints"), Val("command"), Val("Hints"), Val("") }

\* std::env::var(key) against the environment e
env_var(e, key) ==
    CASE e[key].tag = "val" -> [ok |-> TRUE, s |-> e[key].s, err |-> "none"]
      [] e[key].tag = "unset" -> [ok |-> FALSE, s |-> "", err |-> "NotPresent"]
      [] e[key].tag = "not_unicode" -> [ok |-> FALSE, s |-> "", err |-> "NotUnicode"]

(***************************************************************************)
(* Outcomes of a library call: a returned value or a panic with a message  *)
(***************************************************************************)
Returned(type, s) == [ok |-> TRUE, type |-> type, s |-> s, panic |-> "", key |-> ""]
Panicked(msg, key) == [ok |-> FALSE, type |-> "!", s |-> "", panic |-> msg, key |-> key]

\* fn unwrap_env(key): env::var(key).expect(&format!("variable {} not set", key))
unwrap_env(e, key) ==
    LET r == env_var(e, key)
    IN  IF r.ok THEN Returned("String", r.s)
        ELSE Panicked("variable " \o key \o " not set: " \o r.err, key)

\* String -> PathBuf (.into()): the same text, as a path
into_PathBuf(r) == IF r.ok THEN Returned("PathBuf", r.s) ELSE r

\* mode() with the wildcard arm falling back to the command variant
mode_fallback(e) ==
    LET r == unwrap_env(e, MODE)
    IN  IF ~r.ok THEN r
        ELSE CASE r.s = "hints" -> Returned("SpawnMode", "Hints")
               [] OTHER -> Returned("SpawnMode", "Command")

\* pub fn mode() -> SpawnMode
mode(e) ==
    LET r == unwrap_env(e, MODE)
    IN  IF ~r.ok THEN r
        ELSE CASE r.s = "hints" -> Returned("SpawnMode", "Hints")
               [] r.s = "command" -> Returned("SpawnMode", "Command")
               [] OTHER -> Panicked("invalid " \o MODE \o " variable", MODE)

HintsVars_url(e) == unwrap_env(e, HINTS_URL)
HintsVars_selected_text(e) == unwrap_env(e, HINTS_SELECTED_TEXT)
HintsVars_selected_html(e) == unwrap_env(e, HINTS_SELECTED_HTML)
CommandVars_url(e) == unwrap_env(e, COMMAND_URL)
CommandVars_title(e) == unwrap_env(e, COMMAND_TITLE)
CommandVars_selected_text(e) == unwrap_env(e, COMMAND_SELECTED_TEXT)
CommandVars_count(e) == unwrap_env(e, COMMAND_COUNT)
user_agent(e) == unwrap_env(e, USER_AGENT)
\* html() reading the variable of text()
html_reads_text(e) == into_PathBuf(unwrap_env(e, TEXT))
html(e) == into_PathBuf(unwrap_env(e, HTML))
text(e) == into_PathBuf(unwrap_env(e, TEXT))
config_dir(e) == into_PathBuf(unwrap_env(e, CONFIG_DIR))
data_dir(e) == into_PathBuf(unwrap_env(e, DATA_DIR))
download_dir(e) == into_PathBuf(unwrap_env(e, DOWNLOAD_DIR))
commandline_text(e) == unwrap_env(e, COMMANDLINE_TEXT)

\* fifo() reading the variable of config_dir()
fifo_reads_config_dir(e) ==
    LET r == unwrap_env(e, CONFIG_DIR)
    IN  IF r.ok THEN Returned("Fifo", r.s) ELSE r

\* pub fn fifo() -> Fifo: Fifo::new(unwrap_env(FIFO))
fifo(e) ==
    LET r == unwrap_env(e, FIFO)
    IN  IF r.ok THEN Returned("Fifo", r.s) ELSE r

(***************************************************************************)
(* The accessors as the caller sees them: the receiver a call needs (a     *)
(* method taking &self needs a value of the struct; an associated function *)
(* needs none) and the function it runs.                                   *)
(***************************************************************************)
HintsMethods == { "HintsVars::selected_text", "HintsVars::selected_html" }
CommandMethods == { "CommandVars::title", "CommandVars::selected_text", "CommandVars::count" }
FreeAccessors ==
    { "HintsVars::url", "CommandVars::url", "user_agent", "html", "text", "fifo",
      "config_dir", "data_dir", "download_dir", "commandline_text" }
Accessors == HintsMethods \cup CommandMethods \cup FreeAccessors

Receiver(a) ==
    CASE a \in HintsMethods -> "HintsVars"
      [] a \in CommandMethods -> "CommandVars"
      [] OTHER -> "none"

Run(a, e) ==
    CASE a = "mode" -> mode(e)
      [] a = "HintsVars::url" -> HintsVars_url(e)
      [] a = "HintsVars::selected_text" -> HintsVars_selected_text(e)
      [] a = "HintsVars::selected_html" -> HintsVars_selected_html(e)
      [] a = "CommandVars::url" -> CommandVars_url(e)
      [] a = "CommandVars::title" -> CommandVars_title(e)
      [] a = "CommandVars::selected_text" -> CommandVars_selected_text(e)
      [] a = "CommandVars::count" -> CommandVars_count(e)
      [] a = "user_agent" -> user_agent(e)
      [] a = "html" -> html(e)
      [] a = "text" -> text(e)
      [] a = "fifo" -> fifo(e)
      [] a = "config_dir" -> config_dir(e)
      [] a = "data_dir" -> data_dir(e)
      [] a = "download_dir" -> download_dir(e)
      [] a = "commandline_text" -> commandline_text(e)

NoCall == [fn |-> "none", out |-> Returned("()", "")]

\* an environment: the entry m for QUTE_MODE, the variables in the domain of
\* f unset or not Unicode as f says, every other variable at its regular value
MakeEnv(m, f) ==
    [k \in VarNames |->
        IF k = MODE THEN m ELSE IF k \in DOMAIN f THEN f[k] ELSE Val(NormalValue(k))]

AbnormalSets == { T \in SUBSET (VarNames \ {MODE}) : Cardinality(T) <= MaxAbnormal }

Environments ==
    { MakeEnv(m, f) :
        m \in ModeEntries,
        f \in UNION { [S -> {Unset, NotUnicode}] : S \in AbnormalSets } }

(***************************************************************************)
(* The command channel: filesystem, handles, Fifo (src/env.rs) and the     *)
(* helpers of src/util.rs                                                  *)
(***************************************************************************)
PipePath == "/run/qute/fifo"
FilePath == "/run/qute/cmds.txt"
DeniedPath == "/run/qute/denied"
GonePath == "/run/qute/gone"
Paths == { PipePath, FilePath, DeniedPath, GonePath }

Missing == [exists |-> FALSE, kind |-> "none", readable |-> FALSE, writable |-> FALSE, data |-> ""]

\* a named pipe the host reads, a regular file (the platforms without named
\* pipes), a pipe the process has no permission on, and a path with nothing
FsInit ==
    [p \in Paths |->
        CASE p = PipePath -> [exists |-> TRUE, kind |-> "pipe", readable |-> TRUE, writable |-> TRUE, data |-> ""]
          [] p = FilePath -> [exists |-> TRUE, kind |-> "file", readable |-> TRUE, writable |-> TRUE, data |-> ""]
          [] p = DeniedPath -> [exists |-> TRUE, kind |-> "pipe", readable |-> FALSE, writable |-> FALSE, data |-> ""]
          [] OTHER -> Missing]

Lookup(f, p) == IF p \in DOMAIN f THEN f[p] ELSE Missing

NoHandle == [id |-> 0, path |-> "", writable |-> FALSE]
NoFifo == "<no Fifo>"

\* std::fs::File::create(path): opens write-only, creating the file if missing
File_create(f, p) ==
    IF Lookup(f, p).exists /\ ~Lookup(f, p).writable
    THEN [ok |-> FALSE, err |-> "PermissionDenied", writable |-> FALSE, fs |-> f]
    ELSE [ok |-> TRUE, err |-> "none", writable |-> TRUE,
          fs |-> IF p \in DOMAIN f /\ ~f[p].exists
                 THEN [f EXCEPT ![p] = [exists |-> TRUE, kind |-> "file", readable |-> TRUE,
                                        writable |-> TRUE, data |-> ""]]
                 ELSE f]

\* std::fs::File::open(path): opens an existing file read-only; the result
\* and the filesystem after the call
File_open(f, p) ==
    CASE ~Lookup(f, p).exists ->
            [ok |-> FALSE, err |-> "NotFound", writable |-> FALSE, fs |-> f]
      [] Lookup(f, p).exists /\ ~Lookup(f, p).readable ->
            [ok |-> FALSE, err |-> "PermissionDenied", writable |-> FALSE, fs |-> f]
      [] OTHER ->
            [ok |-> TRUE, err |-> "none", writable |-> FALSE, fs |-> f]

\* Fifo::file(&self): File::open(&self.path)
Fifo_file(f, path) == File_open(f, path)

\* one write(2) on a handle: a handle that was not opened for writing takes
\* no byte and fails; n is the number of bytes the object took
sys_write(h, buf, data) ==
    IF h.writable
    THEN [ok |-> TRUE, err |-> "none", n |-> Len(buf), data |-> data \o buf]
    ELSE [ok |-> FALSE, err |-> "BadFileDescriptor", n |-> 0, data |-> data]

\* Write::write_all(buf): no write at all for an empty buffer, else writes
\* until the buffer is taken or a write fails
write_all(h, buf, data) ==
    IF buf = ""
    THEN [ok |-> TRUE, err |-> "none", writes |-> 0, delivered |-> "", data |-> data]
    ELSE LET w == sys_write(h, buf, data)
         IN  [ok |-> w.ok, err |-> w.err, writes |-> 1,
              delivered |-> IF w.ok THEN buf ELSE "", data |-> w.data]

Modes == { "Normal", "Insert", "Caret", "Passthrough" }

\* the match of enter_mode
mode_str(m) ==
    CASE m = "Normal" -> "normal"
      [] m = "Insert" -> "insert"
      [] m = "Caret" -> "caret"
      [] m = "Passthrough" -> "passthrough"

\* format!("enter-mode {}", mode_str)
enter_mode_message(m) == "enter-mode " \o mode_str(m)

\* format!("fake-key {}", s)
fake_key_message(s) == "fake-key " \o s

Helpers == { "enter_mode", "fake_key", "send_command" }

\* inputs of the calls
KeyStrings == { "", "gg" }
Commands == { "open -t qutebrowser.org" }
Texts == { "", "enter-mode insert" }

Idle ==
    [stage |-> "idle", op |-> "none", arg |-> "", msg |-> "", msgs |-> <<>>, path |-> "",
     handle |-> NoHandle, opens |-> 0, writes |-> 0, closes |-> 0, envReads |-> 0,
     out |-> "none", delivered |-> "", existedBefore |-> FALSE, dataBefore |-> "",
     existsAfter |-> FALSE, dataAfter |-> ""]

ChanInit ==
    /\ fs = FsInit
    /\ callerFifo = NoFifo
    /\ cur = Idle
    /\ handles = {}
    /\ nextHandle = 1
    /\ log = <<>>
    /\ observed = ""
    /\ hostReads = 0
    /\ fifoReads = 0

CanCall == pc = "running" /\ cur.stage = "idle" /\ Len(log) < MaxCalls

\* the call has ended: it is logged with its outcome and what it left behind
Finish(c, f) ==
    log' = Append(log, [c EXCEPT !.stage = "done",
                                 !.existsAfter = Lookup(f, c.path).exists,
                                 !.dataAfter = Lookup(f, c.path).data])

\* util::enter_mode(mode): builds the message and calls send_command
CallEnterMode(m) ==
    /\ CanCall
    /\ cur' = [Idle EXCEPT !.stage = "fifo", !.op = "enter_mode", !.arg = m,
                           !.msg = enter_mode_message(m)]
    /\ UNCHANGED <<env, pc, resolverVars, fs, callerFifo, handles, nextHandle, log,
                   observed, hostReads, fifoReads>>

\* util::fake_key(s): builds the message and calls send_command
CallFakeKey(s) ==
    /\ CanCall
    /\ cur' = [Idle EXCEPT !.stage = "fifo", !.op = "fake_key", !.arg = s,
                           !.msg = fake_key_message(s)]
    /\ UNCHANGED <<env, pc, resolverVars, fs, callerFifo, handles, nextHandle, log,
                   observed, hostReads, fifoReads>>

\* util::send_command(cmd)
CallSendCommand(cmd) ==
    /\ CanCall
    /\ cur' = [Idle EXCEPT !.stage = "fifo", !.op = "send_command", !.arg = cmd, !.msg = cmd]
    /\ UNCHANGED <<env, pc, resolverVars, fs, callerFifo, handles, nextHandle, log,
                   observed, hostReads, fifoReads>>

\* send_command, first statement: let fifo = env::fifo(); a panic of
\* unwrap_env ends the call and the process
StepFifo ==
    /\ pc = "running"
    /\ cur.stage = "fifo"
    /\ fifoReads' = fifoReads + 1
    /\ LET r == fifo(env)
           c == [cur EXCEPT !.envReads = cur.envReads + 1]
       IN  IF r.ok
           THEN /\ cur' = [c EXCEPT !.stage = "open", !.path = r.s, !.msgs = <<c.msg>>,
                                    !.existedBefore = Lookup(fs, r.s).exists,
                                    !.dataBefore = Lookup(fs, r.s).data]
                /\ UNCHANGED <<pc, log>>
           ELSE /\ Finish([c EXCEPT !.out = "panic"], fs)
                /\ cur' = Idle
                /\ pc' = "panicked"
    /\ UNCHANGED <<env, resolverVars, fs, callerFifo, handles, nextHandle, observed, hostReads>>

\* the caller's own let f = env::fifo()
CallFifo ==
    /\ pc = "running"
    /\ cur.stage = "idle"
    /\ callerFifo = NoFifo
    /\ fifoReads' = fifoReads + 1
    /\ LET r == fifo(env)
       IN  IF r.ok THEN callerFifo' = r.s /\ pc' = pc
           ELSE pc' = "panicked" /\ callerFifo' = callerFifo
    /\ UNCHANGED <<env, resolverVars, fs, cur, handles, nextHandle, log, observed, hostReads>>

\* the caller's own let f = Fifo::new(path)
CallFifoNew(p) ==
    /\ pc = "running"
    /\ cur.stage = "idle"
    /\ callerFifo = NoFifo
    /\ callerFifo' = p
    /\ UNCHANGED <<env, pc, resolverVars, fs, cur, handles, nextHandle, log, observed,
                   hostReads, fifoReads>>

\* f.write(text) on the Fifo the caller holds
CallWrite(t) ==
    /\ CanCall
    /\ callerFifo # NoFifo
    /\ cur' = [Idle EXCEPT !.stage = "open", !.op = "write", !.arg = t, !.msg = t,
                           !.msgs = <<t>>, !.path = callerFifo,
                           !.existedBefore = Lookup(fs, callerFifo).exists,
                           !.dataBefore = Lookup(fs, callerFifo).data]
    /\ UNCHANGED <<env, pc, resolverVars, fs, callerFifo, handles, nextHandle, log,
                   observed, hostReads, fifoReads>>

\* Fifo::write, first statement: let mut file = self.file()?;
StepOpen ==
    /\ pc = "running"
    /\ cur.stage = "open"
    /\ LET r == Fifo_file(fs, cur.path)
           c == [cur EXCEPT !.opens = cur.opens + 1]
       IN  /\ fs' = r.fs
           /\ IF r.ok
              THEN LET h == [id |-> nextHandle, path |-> cur.path, writable |-> r.writable]
                   IN  /\ handles' = handles \cup {h}
                       /\ nextHandle' = nextHandle + 1
                       /\ cur' = [c EXCEPT !.stage = "write", !.handle = h]
                       /\ UNCHANGED log
              ELSE /\ Finish([c EXCEPT !.out = r.err], r.fs)
                   /\ cur' = Idle
                   /\ UNCHANGED <<handles, nextHandle>>
    /\ UNCHANGED <<env, pc, resolverVars, callerFifo, observed, hostReads, fifoReads>>

\* Fifo::write, second statement: file.write_all(message.as_bytes())
StepWriteAll ==
    /\ pc = "running"
    /\ cur.stage = "write"
    /\ LET r == write_all(cur.handle, cur.msg, Lookup(fs, cur.path).data)
       IN  /\ fs' = [fs EXCEPT ![cur.path].data = r.data]
           /\ cur' = [cur EXCEPT !.stage = "drop", !.writes = cur.writes + r.writes,
                                 !.delivered = r.delivered,
                                 !.out = IF r.ok THEN "Ok" ELSE r.err]
    /\ UNCHANGED <<env, pc, resolverVars, callerFifo, handles, nextHandle, log, observed,
                   hostReads, fifoReads>>

\* Fifo::write returning without closing its file
StepDrop_leak ==
    /\ pc = "running"
    /\ cur.stage = "drop"
    /\ Finish(cur, fs)
    /\ cur' = Idle
    /\ UNCHANGED <<env, pc, resolverVars, fs, callerFifo, handles, nextHandle, observed,
                   hostReads, fifoReads>>

\* Fifo::write returns: file goes out of scope and is closed
StepDrop ==
    /\ pc = "running"
    /\ cur.stage = "drop"
    /\ handles' = handles \ {cur.handle}
    /\ Finish([cur EXCEPT !.closes = cur.closes + 1], fs)
    /\ cur' = Idle
    /\ UNCHANGED <<env, pc, resolverVars, fs, callerFifo, nextHandle, observed, hostReads,
                   fifoReads>>

\* the host reads what the pipe holds
HostRead ==
    /\ hostReads < MaxHostReads
    /\ hostReads' = hostReads + 1
    /\ observed' = observed \o fs[PipePath].data
    /\ fs' = [fs EXCEPT ![PipePath].data = ""]
    /\ UNCHANGED <<env, pc, resolverVars, callerFifo, cur, handles, nextHandle, log, fifoReads>>

FifoEntries == { Unset, NotUnicode } \cup { Val(p) : p \in Paths }

InitChannel ==
    /\ env \in { [MakeEnv(Val("command"), <<>>) EXCEPT ![FIFO] = v] : v \in FifoEntries }
    /\ pc = "running"
    /\ ctx = "None"
    /\ held = {}
    /\ last = NoCall
    /\ ChanInit

NextChannel ==
    \/ \E m \in Modes : CallEnterMode(m)
    \/ \E s \in KeyStrings : CallFakeKey(s)
    \/ \E c \in Commands : CallSendCommand(c)
    \/ CallFifo
    \/ \E p \in Paths : CallFifoNew(p)
    \/ \E t \in Texts : CallWrite(t)
    \/ StepFifo
    \/ StepOpen
    \/ StepWriteAll
    \/ StepDrop
    \/ HostRead

SpecChannel == InitChannel /\ [][NextChannel]_vars

(***************************************************************************)
(* Spec: a userscript process calling the resolver and the accessors       *)
(***************************************************************************)
Init ==
    /\ env \in Environments
    /\ pc = "running"
    /\ ctx = "None"
    /\ held = {}
    /\ last = NoCall
    /\ ChanInit

\* let m = env::mode(); a match on m gives the caller the variant's struct
CallMode ==
    /\ pc = "running"
    /\ LET r == mode(env)
       IN  /\ last' = [fn |-> "mode", out |-> r]
           /\ IF r.ok
              THEN /\ ctx' = r.s
                   /\ held' = held \cup { IF r.s = "Hints" THEN "HintsVars" ELSE "CommandVars" }
                   /\ pc' = pc
              ELSE /\ pc' = "panicked"
                   /\ UNCHANGED <<ctx, held>>
    /\ UNCHANGED <<env, chanVars>>

\* HintsVars and CommandVars are public unit structs: the expression
\* `HintsVars` or `CommandVars` in caller code is a value of the type
Construct(t) ==
    /\ pc = "running"
    /\ t \notin held
    /\ held' = held \cup {t}
    /\ UNCHANGED <<env, pc, ctx, last, chanVars>>

CallAccessor(a) ==
    /\ pc = "running"
    /\ Receiver(a) = "none" \/ Receiver(a) \in held
    /\ LET r == Run(a, env)
       IN  /\ last' = [fn |-> a, out |-> r]
           /\ pc' = IF r.ok THEN pc ELSE "panicked"
    /\ UNCHANGED <<env, ctx, held, chanVars>>

Next ==
    \/ CallMode
    \/ \E t \in {"HintsVars", "CommandVars"} : Construct(t)
    \/ \E a \in Accessors : CallAccessor(a)

Spec == Init /\ [][Next]_vars

(***************************************************************************)
(* Properties of the resolver and the accessors (checked under Spec)       *)
(***************************************************************************)
\* the variable the documentation gives as the backing variable of a call
KeyOf(a) ==
    CASE a = "mode" -> "QUTE_MODE"
      [] a \in {"HintsVars::url", "CommandVars::url"} -> "QUTE_URL"
      [] a \in {"HintsVars::selected_text", "CommandVars::selected_text"} -> "QUTE_SELECTED_TEXT"
      [] a = "HintsVars::selected_html" -> "QUTE_SELECTED_HTML"
      [] a = "CommandVars::title" -> "QUTE_TITLE"
      [] a = "CommandVars::count" -> "QUTE_COUNT"
      [] a = "user_agent" -> "QUTE_USER_AGENT"
      [] a = "html" -> "QUTE_HTML"
      [] a = "text" -> "QUTE_TEXT"
      [] a = "fifo" -> "QUTE_FIFO"
      [] a = "config_dir" -> "QUTE_CONFIG_DIR"
      [] a = "data_dir" -> "QUTE_DATA_DIR"
      [] a = "download_dir" -> "QUTE_DOWNLOAD_DIR"
      [] a = "commandline_text" -> "QUTE_COMMANDLINE_TEXT"

Called == last.fn # "none"

\* the outcome of the last call is the same under every change of one other
\* variable, and a failure names the call's own variable
OwnVariableOnly ==
    /\ ~last.out.ok => last.out.key = KeyOf(last.fn)
    /\ \A k \in VarNames \ {KeyOf(last.fn)} :
         \A v \in {Unset, NotUnicode, Val("hints"), Val("x")} :
            Run(last.fn, [env EXCEPT ![k] = v]) = last.out

\* C1: mode() yields exactly the Hints variant when QUTE_MODE is "hints",
\* exactly the Command variant when it is "command", and fails, producing no
\* variant, for every other value and when QUTE_MODE is absent.
C1_ModeResolvesExactly ==
    last.fn = "mode" =>
        /\ env[MODE] = Val("hints") =>
                last.out.ok /\ last.out.s = "Hints" /\ ctx = "Hints" /\ pc = "running"
        /\ env[MODE] = Val("command") =>
                last.out.ok /\ last.out.s = "Command" /\ ctx = "Command" /\ pc = "running"
        /\ env[MODE] \notin {Val("hints"), Val("command")} =>
                ~last.out.ok /\ ctx = "None" /\ pc = "panicked"
        /\ last.out.ok => last.out.s \in {"Hints", "Command"}

\* mode() was called with QUTE_MODE holding a value that differs from a
\* recognised token only in case, and it failed
C1_Witness ==
    last.fn = "mode" /\ env[MODE] = Val("Hints") /\ pc = "panicked" /\ ctx = "None"

\* C5 as stated: every accessor fails if and only if its own backing variable
\* is absent, the failure names that variable, and the outcome does not
\* depend on any other variable.
C5_FailsIffAbsent ==
    Called =>
        /\ ~last.out.ok <=> env[KeyOf(last.fn)] = Unset
        /\ OwnVariableOnly

\* C5 amended: every accessor fails if and only if its own backing variable
\* is absent or not valid Unicode or, for mode(), holds a value other than
\* "hints" and "command"; the failure names that variable, and the outcome
\* does not depend on any other variable.
C5_FailsIffOwnVariableUnusable ==
    Called =>
        /\ ~last.out.ok <=>
                \/ env[KeyOf(last.fn)].tag # "val"
                \/ last.fn = "mode" /\ env[MODE].s \notin {"hints", "command"}
        /\ OwnVariableOnly

\* user_agent() failed on its own variable while QUTE_MODE was absent too
C5_Witness ==
    /\ last.fn = "user_agent" /\ ~last.out.ok /\ last.out.key = USER_AGENT
    /\ env[USER_AGENT] = Unset /\ env[MODE] = Unset

CommandOnly ==
    { "CommandVars::title", "CommandVars::count", "CommandVars::url",
      "CommandVars::selected_text" }
HintsOnly == { "HintsVars::selected_html", "HintsVars::url", "HintsVars::selected_text" }

\* C8: a command-only accessor is invoked only after mode() resolved to
\* Command, and a hints-only accessor only after mode() resolved to Hints.
C8_VariantScopedAccess ==
    /\ last.fn \in CommandOnly => ctx = "Command"
    /\ last.fn \in HintsOnly => ctx = "Hints"

(***************************************************************************)
(* Properties of the command channel (checked under SpecChannel)           *)
(***************************************************************************)
LogRecs == { log[i] : i \in 1..Len(log) }
\* the finished calls in which Fifo::write was invoked
Sends == { r \in LogRecs : r.msgs # <<>> }
HelperRecs == { r \in LogRecs : r.op \in Helpers }

\* C2: when the channel path exists and is writable, Fifo::write(text)
\* returns success and delivers to the channel exactly the bytes of text.
C2_WriteDelivers ==
    \A r \in Sends :
        (r.existedBefore /\ Lookup(fs, r.path).writable) =>
            r.out = "Ok" /\ r.delivered = r.msg

\* C3: Fifo::write on a path that does not exist returns an I/O failure,
\* delivers no byte, leaves the contents as they were and creates no file.
C3_MissingPathFails ==
    \A r \in Sends :
        ~r.existedBefore =>
            /\ r.out = "NotFound"
            /\ r.writes = 0 /\ r.delivered = ""
            /\ ~r.existsAfter /\ r.dataAfter = r.dataBefore
            /\ ~Lookup(fs, r.path).exists

\* a non-empty message was written to the missing path and the call failed
C3_Witness ==
    \E r \in Sends :
        r.op = "write" /\ r.path = GonePath /\ r.msg = "enter-mode insert" /\ r.out = "NotFound"

\* the line the documentation gives for a helper call
ExpectedLine(op, arg) ==
    CASE op = "enter_mode" ->
            "enter-mode " \o (CASE arg = "Normal" -> "normal"
                                [] arg = "Insert" -> "insert"
                                [] arg = "Caret" -> "caret"
                                [] arg = "Passthrough" -> "passthrough")
      [] op = "fake_key" -> "fake-key " \o arg
      [] OTHER -> arg

\* C4: every call of enter_mode(mode) and fake_key(s) issues exactly one
\* channel write, and the string it passes is `enter-mode <lowercase name>`,
\* respectively `fake-key <s>`.
C4_OneExactWritePerCall ==
    \A r \in HelperRecs :
        r.op \in {"enter_mode", "fake_key"} => r.msgs = <<ExpectedLine(r.op, r.arg)>>

\* C6: two sequential sends m1, m2 to the pipe: once both have returned and
\* the host has drained the pipe, the host has observed m1 followed by m2;
\* and while a send is in flight no handle of an earlier send is open.
C6_OrderedDelivery ==
    /\ handles \subseteq {cur.handle}
    /\ ( /\ Len(log) = 2 /\ cur.stage = "idle"
         /\ log[1] \in Sends /\ log[2] \in Sends
         /\ log[1].path = PipePath /\ log[2].path = PipePath
         /\ fs[PipePath].data = "" /\ hostReads > 0 )
       => observed = log[1].msg \o log[2].msg

\* C7: enter_mode and fake_key (and send_command) end only by returning Ok
\* or the I/O error of the send, never by aborting the process.
C7_HelpersNeverAbort ==
    \A r \in HelperRecs :
        /\ r.out \in {"Ok", "NotFound", "PermissionDenied", "BadFileDescriptor"}
        /\ r.out = "Ok" <=> (r.opens = 1 /\ r.delivered = r.msg)

\* C9: between calls the process holds no open handle; each send performs
\* exactly one open, at most one write, and one close of the handle it
\* opened; no two sends share a handle.
C9_OpenWriteClosePerSend ==
    /\ cur.stage = "idle" => handles = {}
    /\ handles \subseteq {cur.handle}
    /\ \A r \in Sends :
        /\ r.opens = 1
        /\ r.writes <= 1
        /\ r.closes = IF r.handle = NoHandle THEN 0 ELSE 1
    /\ \A i, j \in 1..Len(log) :
        (i # j /\ log[i].handle # NoHandle) => log[i].handle.id # log[j].handle.id

\* two sends were made, one by a helper and one on a Fifo, both opened the
\* channel, and no handle is left
C9_Witness ==
    /\ Len(log) = 2 /\ cur.stage = "idle" /\ handles = {}
    /\ log[1].handle # NoHandle /\ log[2].handle # NoHandle
    /\ log[1].out = "BadFileDescriptor" /\ log[2].out = "Ok"

\* the reads of QUTE_FIFO the helper calls have made
HelperReads ==
    Cardinality({ i \in 1..Len(log) : log[i].op \in Helpers })
        + (IF cur.op \in Helpers /\ cur.stage # "fifo" THEN 1 ELSE 0)

\* C10 as stated: in a process that reaches the channel only through
\* send_command / enter_mode / fake_key, the fifo-path variable is read at
\* most once.
C10_ReadOncePerProcess == callerFifo = NoFifo => fifoReads <= 1

\* C10 amended: every send_command / enter_mode / fake_key call reads
\* QUTE_FIFO itself, exactly once, and targets the path that read returned.
C10_ReadOncePerCall ==
    /\ \A r \in HelperRecs :
        /\ r.envReads = 1
        /\ r.out # "panic" => (env[FIFO].tag = "val" /\ r.path = env[FIFO].s)
    /\ cur.op \in Helpers /\ cur.stage # "fifo" =>
            cur.envReads = 1 /\ cur.path = env[FIFO].s
    /\ fifoReads - HelperReads \in {0, 1}
    /\ (callerFifo = NoFifo /\ pc = "running") => fifoReads = HelperReads

\* two helper calls have run to their end and the variable was read twice
C10_Witness ==
    /\ Len(log) = 2 /\ log[1].op = "enter_mode" /\ log[2].op = "fake_key"
    /\ log[1].out # "panic" /\ log[2].out # "panic"
    /\ log[1].path = PipePath /\ log[2].path = PipePath
    /\ callerFifo = NoFifo /\ fifoReads = 2

====
